---- MODULE Spec2Model ----
(***************************************************************************)
(* Model of the Result type, the conversion/validation helpers and the     *)
(* in-memory UserService of go-like-ts (src/src/types/go-like.ts).         *)
(*                                                                         *)
(* Texts the code inspects character by character (id texts, names,        *)
(* emails) are sequences of one-character strings; messages the code only  *)
(* builds and returns are TLA+ strings.  A value that may be `undefined`   *)
(* is a sequence of length 0 (undefined) or 1 (the value).                 *)
(***************************************************************************)
EXTENDS Integers, Sequences, FiniteSets, TLC

VARIABLES users, nextId, op, args, result, issued, deleted

vars == <<users, nextId, op, args, result, issued, deleted>>

(* ----------------------------- bounds ---------------------------------- *)

\* number of successful createUser calls explored
MaxUsers == 2

\* name.length > 50 in validateName
MaxNameLen == 50

(* ------------------------- undefined / values --------------------------- *)

Undefined == <<>>

Def(v) == <<v>>

Val(o) == o[1]

\* `a || b` on a message: a string is truthy iff it is defined and not empty
OrElse(o, default) == IF o # Undefined /\ Val(o) # "" THEN Val(o) ELSE default

\* `a || b` on a text kept as a sequence of characters
OrText(o, default) == IF o # Undefined /\ Val(o) # <<>> THEN Val(o) ELSE default

(* ------------------------------ texts ----------------------------------- *)

RECURSIVE Join(_)
Join(s) == IF s = <<>> THEN "" ELSE Head(s) \o Join(Tail(s))

Rep(c, n) == [i \in 1..n |-> c]

Digits == <<"0", "1", "2", "3", "4", "5", "6", "7", "8", "9">>

IsDigit(c) == \E d \in 1..10 : Digits[d] = c

DigitVal(c) == (CHOOSE d \in 1..10 : Digits[d] = c) - 1

RECURSIVE NatToString(_)
NatToString(n) ==
    IF n < 10 THEN Digits[n + 1]
    ELSE NatToString(n \div 10) \o Digits[(n % 10) + 1]

\* \s of the regular expression and StrWhiteSpaceChar of Number()
IsSpace(c) == c \in {" ", "\t", "\n"}

(* ------------------------- Result factories ----------------------------- *)

createSuccess(data) == [success |-> TRUE, data |-> data, error |-> Undefined]

\* mutant: the message is not put into the Result
createError_NoMessage(error) == [success |-> FALSE, data |-> Undefined, error |-> Undefined]

createError(error) == [success |-> FALSE, data |-> Undefined, error |-> Def(error)]

(* -------------------------- GoLikeValidator ----------------------------- *)

isNotUndefined(value) == value # Undefined

isNotEmpty(value) == Len(value) > 0

(* ----------------------------- ResultUtils ------------------------------ *)
(* A mapper is a function on values; its argument is the payload.          *)

\* truthiness of an optional number: undefined and 0 are falsy
TruthyData(v) == v # Undefined /\ Val(v) # 0

\* mutant: the payload is tested for truthiness, not for undefined
map_TruthyData(result_, mapper) ==
    IF ~result_.success THEN createError(OrElse(result_.error, "Unknown error"))
    ELSE IF TruthyData(result_.data) THEN createSuccess(mapper[result_.data])
    ELSE createError("Data is undefined")

map(result_, mapper) ==
    IF ~result_.success THEN createError(OrElse(result_.error, "Unknown error"))
    ELSE IF isNotUndefined(result_.data) THEN createSuccess(mapper[result_.data])
    ELSE createError("Data is undefined")

\* mutant: the payload is tested for truthiness, not for undefined
flatMap_TruthyData(result_, mapper) ==
    IF ~result_.success THEN createError(OrElse(result_.error, "Unknown error"))
    ELSE IF TruthyData(result_.data) THEN mapper[result_.data]
    ELSE createError("Data is undefined")

flatMap(result_, mapper) ==
    IF ~result_.success THEN createError(OrElse(result_.error, "Unknown error"))
    ELSE IF isNotUndefined(result_.data) THEN mapper[result_.data]
    ELSE createError("Data is undefined")

\* mutant: the payload is tested for truthiness, not for undefined
unwrapOr_TruthyData(result_, defaultValue) ==
    IF result_.success /\ TruthyData(result_.data) THEN result_.data ELSE defaultValue

unwrapOr(result_, defaultValue) ==
    IF result_.success /\ isNotUndefined(result_.data) THEN result_.data ELSE defaultValue

(* ------------------- Number(value) and String(number) ------------------- *)
(* A number is [nan, neg, int, frac]: sign, integer part and the           *)
(* fractional digits without trailing zeros.  The literals covered are the *)
(* decimal ones of StringNumericLiteral without exponent: optional white   *)
(* space, optional sign, digits with at most one point.  The empty (or all *)
(* white space) text converts to 0.                                        *)

NaN == [nan |-> TRUE, neg |-> FALSE, int |-> 0, frac |-> <<>>]

RECURSIVE TrimLeft(_)
TrimLeft(s) == IF s # <<>> /\ IsSpace(Head(s)) THEN TrimLeft(Tail(s)) ELSE s

RECURSIVE TrimRight(_)
TrimRight(s) ==
    IF s # <<>> /\ IsSpace(s[Len(s)]) THEN TrimRight(SubSeq(s, 1, Len(s) - 1)) ELSE s

RECURSIVE DigitsToNat(_)
DigitsToNat(s) ==
    IF s = <<>> THEN 0
    ELSE 10 * DigitsToNat(SubSeq(s, 1, Len(s) - 1)) + DigitVal(s[Len(s)])

RECURSIVE StripZeros(_)
StripZeros(s) ==
    IF s # <<>> /\ s[Len(s)] = "0" THEN StripZeros(SubSeq(s, 1, Len(s) - 1)) ELSE s

ParseUnsigned(neg, u) ==
    LET points == {i \in 1..Len(u) : u[i] = "."}
        digits == {i \in 1..Len(u) : IsDigit(u[i])}
    IN  IF Cardinality(points) > 1 \/ digits = {}
           \/ Cardinality(points) + Cardinality(digits) # Len(u)
        THEN NaN
        ELSE LET p == IF points = {} THEN Len(u) + 1 ELSE CHOOSE i \in points : TRUE
                 ip == DigitsToNat(SubSeq(u, 1, p - 1))
                 fr == StripZeros(SubSeq(u, p + 1, Len(u)))
             IN  [nan |-> FALSE,
                  neg |-> neg /\ ~(ip = 0 /\ fr = <<>>),
                  int |-> ip, frac |-> fr]

Number(value) ==
    LET t == TrimRight(TrimLeft(value))
    IN  IF t = <<>> THEN [nan |-> FALSE, neg |-> FALSE, int |-> 0, frac |-> <<>>]
        ELSE IF Head(t) = "-" THEN ParseUnsigned(TRUE, Tail(t))
        ELSE IF Head(t) = "+" THEN ParseUnsigned(FALSE, Tail(t))
        ELSE ParseUnsigned(FALSE, t)

String(n) ==
    (IF n.neg THEN "-" ELSE "") \o NatToString(n.int)
    \o (IF n.frac = <<>> THEN "" ELSE "." \o Join(n.frac))

\* TypeConverter.toNumber on a string argument
toNumber(value) ==
    LET parsed == Number(value)
    IN  IF parsed.nan
        THEN createError("Cannot convert \"" \o Join(value) \o "\" to number")
        ELSE createSuccess(Def(parsed))

(* ------------------------- Map<number, IUser> --------------------------- *)
(* The map is the sequence of its entries in insertion order.  Keys are    *)
(* the integers handed out by nextId++.                                    *)

\* SameValueZero of an integer key and a converted number
SameKey(k, n) == ~n.nan /\ n.frac = <<>> /\ ~n.neg /\ n.int = k

IntKey(k) == [nan |-> FALSE, neg |-> FALSE, int |-> k, frac |-> <<>>]

MapHas(m, n) == \E i \in 1..Len(m) : SameKey(m[i].key, n)

MapGet(m, n) ==
    IF MapHas(m, n)
    THEN Def(m[CHOOSE i \in 1..Len(m) : SameKey(m[i].key, n)].value)
    ELSE Undefined

\* mutant: set() on a present key re-inserts the entry at the end
MapSet_MoveToEnd(m, k, v) ==
    Append(SelectSeq(m, LAMBDA e : e.key # k), [key |-> k, value |-> v])

MapSet(m, k, v) ==
    IF \E i \in 1..Len(m) : m[i].key = k
    THEN [i \in 1..Len(m) |-> IF m[i].key = k THEN [key |-> k, value |-> v] ELSE m[i]]
    ELSE Append(m, [key |-> k, value |-> v])

MapDelete(m, n) == SelectSeq(m, LAMBDA e : ~SameKey(e.key, n))

MapValues(m) == [i \in 1..Len(m) |-> m[i].value]

(* ----------------------------- UserService ------------------------------ *)

validateName(name) ==
    IF ~isNotEmpty(name) THEN createError("Name cannot be empty")
    ELSE IF Len(name) > MaxNameLen THEN createError("Name cannot exceed 50 characters")
    ELSE createSuccess(Def(TRUE))

\* [^\s@]
NotSpaceAt(c) == ~IsSpace(c) /\ c # "@"

\* /^[^\s@]+@[^\s@]+\.[^\s@]+$/.test(email)
emailRegex(email) ==
    \E a \in 1..Len(email), d \in 1..Len(email) :
        /\ email[a] = "@"
        /\ email[d] = "."
        /\ 1 < a /\ a + 1 < d /\ d < Len(email)
        /\ \A i \in 1..Len(email) : i \notin {a, d} => NotSpaceAt(email[i])

\* mutant: the shape test is dropped
validateEmail_EmptyOnly(email) ==
    IF ~isNotEmpty(email) THEN createError("Email cannot be empty")
    ELSE createSuccess(Def(TRUE))

validateEmail(email) ==
    IF ~isNotEmpty(email) THEN createError("Email cannot be empty")
    ELSE IF ~emailRegex(email) THEN createError("Invalid email format")
    ELSE createSuccess(Def(TRUE))

\* mutant: the scan compares the name instead of the email
findUserByEmail_ByName(email) ==
    LET vals == MapValues(users)
        hits == {i \in 1..Len(vals) : vals[i].name = email}
        user == IF hits = {} THEN Undefined
                ELSE Def(vals[CHOOSE i \in hits : \A j \in hits : i <= j])
    IN  IF ~isNotUndefined(user) THEN createError("User not found")
        ELSE createSuccess(user)

findUserByEmail(email) ==
    LET vals == MapValues(users)
        hits == {i \in 1..Len(vals) : vals[i].email = email}
        user == IF hits = {} THEN Undefined
                ELSE Def(vals[CHOOSE i \in hits : \A j \in hits : i <= j])
    IN  IF ~isNotUndefined(user) THEN createError("User not found")
        ELSE createSuccess(user)

\* what a handler leaves behind: its return value and the two fields
Outcome(res, us, nid) == [result |-> res, users |-> us, nextId |-> nid]

\* mutant: the counter is read but not incremented
createUser_NoIncrement(request) ==
    LET nameValidation == validateName(request.name)
        emailValidation == validateEmail(request.email)
        existingUserCheck == findUserByEmail(request.email)
        user == [id |-> nextId, name |-> request.name, email |-> request.email]
    IN  IF ~nameValidation.success
        THEN Outcome(createError(OrElse(nameValidation.error, "Name validation failed")),
                     users, nextId)
        ELSE IF ~emailValidation.success
        THEN Outcome(createError(OrElse(emailValidation.error, "Email validation failed")),
                     users, nextId)
        ELSE IF existingUserCheck.success
        THEN Outcome(createError("User with this email already exists"), users, nextId)
        ELSE Outcome(createSuccess(Def(user)), MapSet(users, user.id, user), nextId)

\* mutant: the id is taken from the counter before the duplicate check
createUser_EarlyIncrement(request) ==
    LET nameValidation == validateName(request.name)
        emailValidation == validateEmail(request.email)
        existingUserCheck == findUserByEmail(request.email)
        user == [id |-> nextId, name |-> request.name, email |-> request.email]
    IN  IF ~nameValidation.success
        THEN Outcome(createError(OrElse(nameValidation.error, "Name validation failed")),
                     users, nextId)
        ELSE IF ~emailValidation.success
        THEN Outcome(createError(OrElse(emailValidation.error, "Email validation failed")),
                     users, nextId)
        ELSE IF existingUserCheck.success
        THEN Outcome(createError("User with this email already exists"), users, nextId + 1)
        ELSE Outcome(createSuccess(Def(user)), MapSet(users, user.id, user), nextId + 1)

\* mutant: the record is stored under the counter after its increment
createUser_KeyAfterIncrement(request) ==
    LET nameValidation == validateName(request.name)
        emailValidation == validateEmail(request.email)
        existingUserCheck == findUserByEmail(request.email)
        user == [id |-> nextId, name |-> request.name, email |-> request.email]
    IN  IF ~nameValidation.success
        THEN Outcome(createError(OrElse(nameValidation.error, "Name validation failed")),
                     users, nextId)
        ELSE IF ~emailValidation.success
        THEN Outcome(createError(OrElse(emailValidation.error, "Email validation failed")),
                     users, nextId)
        ELSE IF existingUserCheck.success
        THEN Outcome(createError("User with this email already exists"), users, nextId)
        ELSE Outcome(createSuccess(Def(user)), MapSet(users, nextId + 1, user), nextId + 1)

\* mutant: the email is validated before the name
createUser_EmailFirst(request) ==
    LET nameValidation == validateName(request.name)
        emailValidation == validateEmail(request.email)
        existingUserCheck == findUserByEmail(request.email)
        user == [id |-> nextId, name |-> request.name, email |-> request.email]
    IN  IF ~emailValidation.success
        THEN Outcome(createError(OrElse(emailValidation.error, "Email validation failed")),
                     users, nextId)
        ELSE IF ~nameValidation.success
        THEN Outcome(createError(OrElse(nameValidation.error, "Name validation failed")),
                     users, nextId)
        ELSE IF existingUserCheck.success
        THEN Outcome(createError("User with this email already exists"), users, nextId)
        ELSE Outcome(createSuccess(Def(user)), MapSet(users, user.id, user), nextId + 1)

\* mutant: the counter is incremented before it is read (++nextId)
createUser_PreIncrement(request) ==
    LET nameValidation == validateName(request.name)
        emailValidation == validateEmail(request.email)
        existingUserCheck == findUserByEmail(request.email)
        user == [id |-> nextId + 1, name |-> request.name, email |-> request.email]
    IN  IF ~nameValidation.success
        THEN Outcome(createError(OrElse(nameValidation.error, "Name validation failed")),
                     users, nextId)
        ELSE IF ~emailValidation.success
        THEN Outcome(createError(OrElse(emailValidation.error, "Email validation failed")),
                     users, nextId)
        ELSE IF existingUserCheck.success
        THEN Outcome(createError("User with this email already exists"), users, nextId)
        ELSE Outcome(createSuccess(Def(user)), MapSet(users, user.id, user), nextId + 1)

createUser(request) ==
    LET nameValidation == validateName(request.name)
        emailValidation == validateEmail(request.email)
        existingUserCheck == findUserByEmail(request.email)
        user == [id |-> nextId, name |-> request.name, email |-> request.email]
    IN  IF ~nameValidation.success
        THEN Outcome(createError(OrElse(nameValidation.error, "Name validation failed")),
                     users, nextId)
        ELSE IF ~emailValidation.success
        THEN Outcome(createError(OrElse(emailValidation.error, "Email validation failed")),
                     users, nextId)
        ELSE IF existingUserCheck.success
        THEN Outcome(createError("User with this email already exists"), users, nextId)
        ELSE Outcome(createSuccess(Def(user)), MapSet(users, user.id, user), nextId + 1)

\* mutant: the not-found message quotes the id text instead of the number
getUserById_RawIdMessage(id) ==
    LET idConversionResult == toNumber(id)
        numericId == idConversionResult.data
        user == MapGet(users, Val(numericId))
    IN  IF ~idConversionResult.success
        THEN createError("Invalid ID format: "
                         \o OrElse(idConversionResult.error, "unknown error"))
        ELSE IF ~isNotUndefined(numericId)
        THEN createError("ID conversion resulted in undefined")
        ELSE IF ~isNotUndefined(user)
        THEN createError("User not found with ID: " \o Join(id))
        ELSE createSuccess(user)

getUserById(id) ==
    LET idConversionResult == toNumber(id)
        numericId == idConversionResult.data
        user == MapGet(users, Val(numericId))
    IN  IF ~idConversionResult.success
        THEN createError("Invalid ID format: "
                         \o OrElse(idConversionResult.error, "unknown error"))
        ELSE IF ~isNotUndefined(numericId)
        THEN createError("ID conversion resulted in undefined")
        ELSE IF ~isNotUndefined(user)
        THEN createError("User not found with ID: " \o String(Val(numericId)))
        ELSE createSuccess(user)

getAllUsers == createSuccess(Def(MapValues(users)))

\* mutant: the other record's id is not compared
inUseByOther_AnyHolder(existingEmailCheck, existingUser) == existingEmailCheck.success

\* existingEmailCheck.success && existingEmailCheck.data?.id !== existingUser.id
inUseByOther(existingEmailCheck, existingUser) ==
    /\ existingEmailCheck.success
    /\ Val(existingEmailCheck.data).id # existingUser.id

Truthy(o) == o # Undefined /\ Val(o) # <<>>

\* mutant: a field counts as given only when it is truthy
updateUser_TruthyPresence(id, updates) ==
    LET getUserResult == getUserById(id)
        existingUser == Val(getUserResult.data)
        nameValidation == validateName(Val(updates.name))
        emailValidation == validateEmail(Val(updates.email))
        existingEmailCheck == findUserByEmail(Val(updates.email))
        updatedUser == [id |-> existingUser.id,
                        name |-> OrText(updates.name, existingUser.name),
                        email |-> OrText(updates.email, existingUser.email)]
    IN  IF ~getUserResult.success
        THEN Outcome(createError(OrElse(getUserResult.error, "User not found")),
                     users, nextId)
        ELSE IF ~isNotUndefined(getUserResult.data)
        THEN Outcome(createError("Retrieved user is undefined"), users, nextId)
        ELSE IF Truthy(updates.name) /\ ~nameValidation.success
        THEN Outcome(createError(OrElse(nameValidation.error, "Name validation failed")),
                     users, nextId)
        ELSE IF Truthy(updates.email) /\ ~emailValidation.success
        THEN Outcome(createError(OrElse(emailValidation.error, "Email validation failed")),
                     users, nextId)
        ELSE IF Truthy(updates.email) /\ inUseByOther(existingEmailCheck, existingUser)
        THEN Outcome(createError("Email is already in use by another user"), users, nextId)
        ELSE Outcome(createSuccess(Def(updatedUser)),
                     MapSet(users, updatedUser.id, updatedUser), nextId)

\* mutant: the email falls back to the name of the existing record
updateUser_EmailFromName(id, updates) ==
    LET getUserResult == getUserById(id)
        existingUser == Val(getUserResult.data)
        nameValidation == validateName(Val(updates.name))
        emailValidation == validateEmail(Val(updates.email))
        existingEmailCheck == findUserByEmail(Val(updates.email))
        updatedUser == [id |-> existingUser.id,
                        name |-> OrText(updates.name, existingUser.name),
                        email |-> OrText(updates.email, existingUser.name)]
    IN  IF ~getUserResult.success
        THEN Outcome(createError(OrElse(getUserResult.error, "User not found")),
                     users, nextId)
        ELSE IF ~isNotUndefined(getUserResult.data)
        THEN Outcome(createError("Retrieved user is undefined"), users, nextId)
        ELSE IF isNotUndefined(updates.name) /\ ~nameValidation.success
        THEN Outcome(createError(OrElse(nameValidation.error, "Name validation failed")),
                     users, nextId)
        ELSE IF isNotUndefined(updates.email) /\ ~emailValidation.success
        THEN Outcome(createError(OrElse(emailValidation.error, "Email validation failed")),
                     users, nextId)
        ELSE IF isNotUndefined(updates.email) /\ inUseByOther(existingEmailCheck, existingUser)
        THEN Outcome(createError("Email is already in use by another user"), users, nextId)
        ELSE Outcome(createSuccess(Def(updatedUser)),
                     MapSet(users, updatedUser.id, updatedUser), nextId)

updateUser(id, updates) ==
    LET getUserResult == getUserById(id)
        existingUser == Val(getUserResult.data)
        nameValidation == validateName(Val(updates.name))
        emailValidation == validateEmail(Val(updates.email))
        existingEmailCheck == findUserByEmail(Val(updates.email))
        updatedUser == [id |-> existingUser.id,
                        name |-> OrText(updates.name, existingUser.name),
                        email |-> OrText(updates.email, existingUser.email)]
    IN  IF ~getUserResult.success
        THEN Outcome(createError(OrElse(getUserResult.error, "User not found")),
                     users, nextId)
        ELSE IF ~isNotUndefined(getUserResult.data)
        THEN Outcome(createError("Retrieved user is undefined"), users, nextId)
        ELSE IF isNotUndefined(updates.name) /\ ~nameValidation.success
        THEN Outcome(createError(OrElse(nameValidation.error, "Name validation failed")),
                     users, nextId)
        ELSE IF isNotUndefined(updates.email) /\ ~emailValidation.success
        THEN Outcome(createError(OrElse(emailValidation.error, "Email validation failed")),
                     users, nextId)
        ELSE IF isNotUndefined(updates.email) /\ inUseByOther(existingEmailCheck, existingUser)
        THEN Outcome(createError("Email is already in use by another user"), users, nextId)
        ELSE Outcome(createSuccess(Def(updatedUser)),
                     MapSet(users, updatedUser.id, updatedUser), nextId)

\* mutant: the entry is looked up but never removed
deleteUser_NoRemove(id) ==
    LET idConversionResult == toNumber(id)
        numericId == idConversionResult.data
    IN  IF ~idConversionResult.success
        THEN Outcome(createError("Invalid ID format: "
                                 \o OrElse(idConversionResult.error, "unknown error")),
                     users, nextId)
        ELSE IF ~isNotUndefined(numericId)
        THEN Outcome(createError("ID conversion resulted in undefined"), users, nextId)
        ELSE IF ~MapHas(users, Val(numericId))
        THEN Outcome(createError("User not found with ID: " \o String(Val(numericId))),
                     users, nextId)
        ELSE Outcome(createSuccess(Def(TRUE)), users, nextId)

deleteUser(id) ==
    LET idConversionResult == toNumber(id)
        numericId == idConversionResult.data
    IN  IF ~idConversionResult.success
        THEN Outcome(createError("Invalid ID format: "
                                 \o OrElse(idConversionResult.error, "unknown error")),
                     users, nextId)
        ELSE IF ~isNotUndefined(numericId)
        THEN Outcome(createError("ID conversion resulted in undefined"), users, nextId)
        ELSE IF ~MapHas(users, Val(numericId))
        THEN Outcome(createError("User not found with ID: " \o String(Val(numericId))),
                     users, nextId)
        ELSE Outcome(createSuccess(Def(TRUE)), MapDelete(users, Val(numericId)), nextId)

(* ------------------------------- inputs --------------------------------- *)

NameA == <<"A", "l">>

Names == {<<>>, NameA, Rep("x", MaxNameLen), Rep("x", MaxNameLen + 1)}

\* two well-formed emails that differ only in the case of one letter
EmailA == <<"a", "@", "b", ".", "c">>
EmailUpperA == <<"A", "@", "b", ".", "c">>

ValidEmails == {EmailA, EmailUpperA}

EmailNoAt == <<"a", "b", ".", "c">>

Emails ==
    ValidEmails \cup
    { <<>>,
      EmailNoAt,
      <<"a", "@", "b", "c">>,
      <<"a", " ", "@", "b", ".", "c">>,
      <<"a", "@", "b", "@", "c", ".", "d">>,
      <<"a", "@", "b", ".">>,
      <<"@", "b", ".", "c">>,
      <<"a", "@", ".", "c">> }

UpdateEmails == ValidEmails \cup {<<>>, EmailNoAt}

\* the ids the store can hold, one beyond, and texts Number() treats specially
IdTexts ==
    { <<NatToString(n)>> : n \in 1..(MaxUsers + 1) } \cup
    { <<>>, <<"a">>, <<" ", "1", ".", "0">>, <<"1", ".", "5">> }

Optional(S) == {Undefined} \cup {Def(x) : x \in S}

Args(id, name, email) == [id |-> id, name |-> name, email |-> email]

\* payloads and defaults: undefined and two numbers
Values == {Undefined, Def(0), Def(1)}

\* an IResult literal without a message: { success: false }
ErrorNoMessage == [success |-> FALSE, data |-> Undefined, error |-> Undefined]

Results ==
    {createSuccess(v) : v \in Values}
    \cup {createError(""), createError("boom"), ErrorNoMessage}

Mappers == [Values -> Values]

ResultMappers ==
    [Values -> {createSuccess(v) : v \in Values} \cup {createError("boom")}]

(* ------------------------------ actions --------------------------------- *)

Init ==
    /\ users = <<>>
    /\ nextId = 1
    /\ op = "new"
    /\ args = Args(Undefined, Undefined, Undefined)
    /\ result = createSuccess(Undefined)
    /\ issued = <<>>
    /\ deleted = {}

CreateUser ==
    \E name \in Names, email \in Emails :
        LET out == createUser([name |-> name, email |-> email])
        IN  /\ out.nextId <= MaxUsers + 1
            /\ users' = out.users
            /\ nextId' = out.nextId
            /\ op' = "createUser"
            /\ args' = Args(Undefined, Def(name), Def(email))
            /\ result' = out.result
            /\ issued' = IF out.result.success
                          THEN Append(issued, Val(out.result.data).id) ELSE issued
            /\ UNCHANGED deleted

GetUserById ==
    \E id \in IdTexts :
        /\ op' = "getUserById"
        /\ args' = Args(Def(id), Undefined, Undefined)
        /\ result' = getUserById(id)
        /\ UNCHANGED <<users, nextId, issued, deleted>>

GetAllUsers ==
    /\ op' = "getAllUsers"
    /\ args' = Args(Undefined, Undefined, Undefined)
    /\ result' = getAllUsers
    /\ UNCHANGED <<users, nextId, issued, deleted>>

UpdateUser ==
    \E id \in IdTexts, name \in Optional(Names), email \in Optional(UpdateEmails) :
        LET out == updateUser(id, [name |-> name, email |-> email])
        IN  /\ users' = out.users
            /\ nextId' = out.nextId
            /\ op' = "updateUser"
            /\ args' = Args(Def(id), name, email)
            /\ result' = out.result
            /\ UNCHANGED <<issued, deleted>>

DeleteUser ==
    \E id \in IdTexts :
        LET out == deleteUser(id)
        IN  /\ users' = out.users
            /\ nextId' = out.nextId
            /\ op' = "deleteUser"
            /\ args' = Args(Def(id), Undefined, Undefined)
            /\ result' = out.result
            /\ deleted' = IF out.result.success
                           THEN deleted \cup {Number(id).int} ELSE deleted
            /\ UNCHANGED issued

Next == CreateUser \/ GetUserById \/ GetAllUsers \/ UpdateUser \/ DeleteUser

Spec == Init /\ [][Next]_vars

(* ------------------------- ResultUtils actions --------------------------- *)

Map ==
    \E r \in Results, f \in Mappers :
        /\ op' = "map"
        /\ args' = [result |-> r, mapper |-> f]
        /\ result' = map(r, f)
        /\ UNCHANGED <<users, nextId, issued, deleted>>

FlatMap ==
    \E r \in Results, f \in ResultMappers :
        /\ op' = "flatMap"
        /\ args' = [result |-> r, mapper |-> f]
        /\ result' = flatMap(r, f)
        /\ UNCHANGED <<users, nextId, issued, deleted>>

UnwrapOr ==
    \E r \in Results, d \in Values :
        /\ op' = "unwrapOr"
        /\ args' = [result |-> r, defaultValue |-> d]
        /\ result' = unwrapOr(r, d)
        /\ UNCHANGED <<users, nextId, issued, deleted>>

NextResult == Map \/ FlatMap \/ UnwrapOr

SpecResult == Init /\ [][NextResult]_vars

(* ============================== properties ============================== *)

Present == {users[i].value : i \in 1..Len(users)}

Keys(m) == {m[i].key : i \in 1..Len(m)}

\* the id a text names, when it names one of the present keys of m
Resolves(m, idText, k) == k \in Keys(m) /\ SameKey(k, Number(idText))

\* local@domain.tld: no white space, one "@" that is not first, and after it
\* a "." that neither follows the "@" directly nor ends the text
WellFormedEmail(e) ==
    LET ats == {i \in 1..Len(e) : e[i] = "@"}
    IN  /\ Cardinality(ats) = 1
        /\ \A i \in 1..Len(e) : e[i] \notin {" ", "\t", "\n"}
        /\ \A a \in ats :
              /\ a > 1
              /\ \E d \in (a + 2)..(Len(e) - 1) : e[d] = "."

\* position of an id in the creation history
CreatedAt(id) == CHOOSE i \in 1..Len(issued) : issued[i] = id

(* C1: no two records present in the store have the same email (exact,     *)
(* case-sensitive equality), in every reachable state.                     *)
C1_UniqueEmail ==
    \A i, j \in 1..Len(users) :
        i # j => users[i].value.email # users[j].value.email

\* two records whose emails differ only in case are present after an update
\* of an email was accepted
C1_Witness ==
    /\ op = "updateUser" /\ result.success /\ args.email # Undefined
    /\ {EmailA, EmailUpperA} \subseteq {u.email : u \in Present}

(* C2: the ids returned by successful createUser calls are strictly        *)
(* increasing in creation order, so no id is issued twice, also after the  *)
(* record holding it was deleted.                                          *)
C2_IdMonotonic ==
    \A i, j \in 1..Len(issued) : i < j => issued[i] < issued[j]

\* a create succeeded after an earlier record had been deleted
C2_Witness ==
    /\ op = "createUser" /\ result.success
    /\ Len(issued) >= 2 /\ deleted # {}

(* C3: when createUser, updateUser, deleteUser or getUserById returns an   *)
(* error Result, the record mapping and the id counter are what they were  *)
(* before the call.                                                        *)
C3_NoPartialWrite ==
    [][ (op' \in {"createUser", "updateUser", "deleteUser", "getUserById"}
         /\ ~result'.success)
        => (users' = users /\ nextId' = nextId) ]_vars

\* a duplicate-email create was refused on a non-empty store
C3_Witness ==
    /\ op = "createUser" /\ ~result.success
    /\ result.error = Def("User with this email already exists")
    /\ users # <<>>

(* C4: every key of the record mapping equals the id field of the record   *)
(* stored under it, and nextId is at least 1 + the largest id ever issued. *)
C4_StoreInvariant ==
    /\ \A i \in 1..Len(users) : users[i].key = users[i].value.id
    /\ \A i \in 1..Len(issued) : nextId >= 1 + issued[i]

\* a stored record was overwritten by an update after two ids were issued
C4_Witness ==
    /\ op = "updateUser" /\ result.success
    /\ Len(issued) >= 2 /\ users # <<>>

(* C5: every record present in the store has a positive integer id, a      *)
(* non-empty name of at most 50 characters and a non-empty email of the    *)
(* shape local@domain.tld; this also holds of what updateUser stores.      *)
C5_RecordValid ==
    \A u \in Present :
        /\ u.id \in Nat /\ u.id > 0
        /\ Len(u.name) >= 1 /\ Len(u.name) <= 50
        /\ Len(u.email) >= 1 /\ WellFormedEmail(u.email)

\* an update that supplied both a name and an email was stored
C5_Witness ==
    /\ op = "updateUser" /\ result.success
    /\ args.name # Undefined /\ args.email # Undefined
    /\ Val(result.data) \in Present

(* C6: once deleteUser(id) has succeeded, the id is absent in every later  *)
(* state: a later getUserById of it returns "User not found with ID: id",  *)
(* and a later deleteUser or updateUser of it fails.                       *)
C6_DeletedStaysAbsent ==
    [][ \A d \in deleted :
          /\ d \notin Keys(users')
          /\ (op' \in {"getUserById", "updateUser", "deleteUser"}
              /\ SameKey(d, Number(Val(args'.id))))
             => /\ ~result'.success
                /\ op' = "getUserById"
                   => result'.error = Def("User not found with ID: " \o NatToString(d))
      ]_vars

\* a getUserById of an id deleted earlier was answered with the error
C6_Witness ==
    /\ op = "getUserById" /\ 1 \in deleted
    /\ Val(args.id) = <<"1">>
    /\ result = createError("User not found with ID: 1")
    /\ users # <<>>

(* C7: getAllUsers returns a success Result whose list holds exactly the   *)
(* records currently present, in the order in which they were created      *)
(* (the empty list for the empty store).                                   *)
C7_ListInCreationOrder ==
    op = "getAllUsers" =>
        /\ result.success /\ result.error = Undefined /\ result.data # Undefined
        /\ LET list == Val(result.data)
           IN  /\ Len(list) = Cardinality(Keys(users))
               /\ \A i \in 1..Len(list) :
                     MapGet(users, IntKey(list[i].id)) = Def(list[i])
               /\ \A i, j \in 1..Len(list) :
                     i < j => CreatedAt(list[i].id) < CreatedAt(list[j].id)

\* two records created one after the other are listed, oldest first
C7_Witness ==
    /\ op = "getAllUsers" /\ result.success
    /\ Len(Val(result.data)) = 2
    /\ Val(result.data)[1].id = 1 /\ Val(result.data)[2].id = 2

(* C8: createUser returns the message of the first failing check, in the   *)
(* order empty name, name over 50 characters, empty email, email shape,    *)
(* email already held by a present record; otherwise it succeeds with a    *)
(* record carrying the requested name and email and an id > 0.             *)
C8_CreatePriority ==
    [][ op' = "createUser" =>
          LET n == Val(args'.name)
              e == Val(args'.email)
          IN  IF Len(n) = 0
                THEN result' = createError("Name cannot be empty")
              ELSE IF Len(n) > 50
                THEN result' = createError("Name cannot exceed 50 characters")
              ELSE IF Len(e) = 0
                THEN result' = createError("Email cannot be empty")
              ELSE IF ~WellFormedEmail(e)
                THEN result' = createError("Invalid email format")
              ELSE IF \E u \in Present : u.email = e
                THEN result' = createError("User with this email already exists")
              ELSE /\ result'.success /\ result'.error = Undefined
                   /\ result'.data # Undefined
                   /\ Val(result'.data).name = n
                   /\ Val(result'.data).email = e
                   /\ Val(result'.data).id > 0
      ]_vars

\* an empty name together with a malformed email reports the name
C8_Witness ==
    /\ op = "createUser"
    /\ args.name = Def(<<>>) /\ args.email = Def(EmailNoAt)
    /\ result = createError("Name cannot be empty")

(* C9: for an existing record i and a well-formed email e,                 *)
(* updateUser(i, {email: e}) fails with "Email is already in use by        *)
(* another user" iff a present record with another id holds e; on that     *)
(* failure the store is unchanged; the record's own email is accepted.     *)
C9_EmailInUse ==
    [][ \A k \in Keys(users) :
          ( /\ op' = "updateUser"
            /\ Resolves(users, Val(args'.id), k)
            /\ args'.name = Undefined
            /\ args'.email # Undefined
            /\ WellFormedEmail(Val(args'.email)) )
          => LET e == Val(args'.email)
                 held == \E u \in Present : u.id # k /\ u.email = e
             IN  /\ (result' = createError("Email is already in use by another user"))
                    <=> held
                 /\ held => users' = users
                 /\ ~held => result'.success
                 /\ Val(MapGet(users, IntKey(k))).email = e => result'.success
      ]_vars

\* an update to the email of another present record was refused
C9_Witness ==
    /\ op = "updateUser" /\ args.name = Undefined
    /\ result = createError("Email is already in use by another user")
    /\ Len(users) = 2

(* C10 (as stated): updateUser on an existing record with an empty string  *)
(* for name or email treats the field as not given: it returns success and *)
(* the stored record keeps its prior value.                                *)
C10_EmptyIgnored ==
    [][ \A k \in Keys(users) :
          ( /\ op' = "updateUser"
            /\ Resolves(users, Val(args'.id), k)
            /\ args'.name \in {Undefined, Def(<<>>)}
            /\ args'.email \in {Undefined, Def(<<>>)}
            /\ Def(<<>>) \in {args'.name, args'.email} )
          => (result'.success /\ users' = users)
      ]_vars

(* C10 (amended): updateUser on an existing record with an empty string    *)
(* for name is refused with "Name cannot be empty"; with an empty string   *)
(* for email, and a name that is absent or valid, it is refused with       *)
(* "Email cannot be empty"; the store is unchanged in both cases.          *)
C10_EmptyRejected ==
    [][ \A k \in Keys(users) :
          ( /\ op' = "updateUser"
            /\ Resolves(users, Val(args'.id), k) )
          => /\ args'.name = Def(<<>>)
                => /\ result' = createError("Name cannot be empty")
                   /\ users' = users /\ nextId' = nextId
             /\ ( /\ args'.email = Def(<<>>)
                  /\ \/ args'.name = Undefined
                     \/ (Len(Val(args'.name)) >= 1 /\ Len(Val(args'.name)) <= 50) )
                => /\ result' = createError("Email cannot be empty")
                   /\ users' = users /\ nextId' = nextId
      ]_vars

\* an update with an empty email and no name was refused on an existing id
C10_Witness ==
    /\ op = "updateUser"
    /\ args.name = Undefined /\ args.email = Def(<<>>)
    /\ result = createError("Email cannot be empty")
    /\ Resolves(users, Val(args.id), 1)

(* C11: a successful updateUser(i, updates) changes only the given fields  *)
(* of record i: its id and every field not given keep their values, every  *)
(* other record, the set of present ids and the id counter are unchanged.  *)
C11_UpdateFrame ==
    [][ \A k \in Keys(users) :
          ( /\ op' = "updateUser" /\ result'.success
            /\ Resolves(users, Val(args'.id), k) )
          => LET old == Val(MapGet(users, IntKey(k)))
                 new == Val(MapGet(users', IntKey(k)))
             IN  /\ Keys(users') = Keys(users)
                 /\ Len(users') = Len(users)
                 /\ nextId' = nextId
                 /\ new.id = old.id
                 /\ args'.name = Undefined => new.name = old.name
                 /\ args'.email = Undefined => new.email = old.email
                 /\ args'.name # Undefined => new.name = Val(args'.name)
                 /\ args'.email # Undefined => new.email = Val(args'.email)
                 /\ result'.data = Def(new)
                 /\ \A j \in Keys(users) \ {k} :
                       MapGet(users', IntKey(j)) = MapGet(users, IntKey(j))
      ]_vars

\* a name-only update of the second of two records was stored
C11_Witness ==
    /\ op = "updateUser" /\ result.success
    /\ args.name = Def(NameA) /\ args.email = Undefined
    /\ Resolves(users, Val(args.id), 2)
    /\ Len(users) = 2

\* the id texts Number() cannot convert
NotNumeric == {<<"a">>}

\* the decimal numeral of the number an id text converts to
Numeral(t) ==
    IF t = <<>> THEN "0"
    ELSE IF t = <<" ", "1", ".", "0">> THEN "1"
    ELSE Join(t)

\* the message begins with "Invalid ID format"
StartsWithInvalidId(msg) ==
    \E rest \in {"unknown error"}
                \cup {"Cannot convert \"" \o Join(u) \o "\" to number" : u \in IdTexts} :
        msg = Def("Invalid ID format: " \o rest)

(* C12: getUserById, updateUser and deleteUser resolve an id text alike:   *)
(* a text toNumber cannot convert gives an error starting with "Invalid ID *)
(* format"; a text that converts to a number with no record present gives  *)
(* exactly "User not found with ID: " followed by that number; and for a   *)
(* present id getUserById returns the record stored under it.              *)
C12_IdResolution ==
    [][ op' \in {"getUserById", "updateUser", "deleteUser"} =>
          LET t == Val(args'.id)
              named == {k \in Keys(users) : NatToString(k) = Numeral(t)}
          IN  /\ t \in NotNumeric
                 => ~result'.success /\ StartsWithInvalidId(result'.error)
              /\ (t \notin NotNumeric /\ named = {})
                 => result' = createError("User not found with ID: " \o Numeral(t))
              /\ (op' = "getUserById" /\ named # {})
                 => \A k \in named :
                       /\ result'.success
                       /\ result'.data # Undefined
                       /\ Val(result'.data).id = k
                       /\ \E i \in 1..Len(users') :
                             users'[i].key = k /\ users'[i].value = Val(result'.data)
      ]_vars

\* updateUser forwarded the not-found error for a text that converts to 0
C12_Witness ==
    /\ op = "updateUser" /\ args.id = Def(<<>>)
    /\ args.name = Def(NameA)
    /\ result = createError("User not found with ID: 0")
    /\ users # <<>>

(* C16: every call of a store operation returns a Result with exactly one  *)
(* arm populated: success with a present payload and no error message, or  *)
(* failure with an error message and no payload.                           *)
C16_OneArm ==
    op \in {"createUser", "getUserById", "getAllUsers", "updateUser", "deleteUser"} =>
        \/ result.success /\ result.data # Undefined /\ result.error = Undefined
        \/ ~result.success /\ result.error # Undefined /\ result.data = Undefined

\* both arms occur: a delete that succeeded on a store that kept a record
C16_Witness ==
    /\ op = "deleteUser"
    /\ result = createSuccess(Def(TRUE))
    /\ users # <<>>

(* C17: the k-th successful createUser returns id k, so nextId is always   *)
(* 1 + the number of successful creates; a failing createUser and every    *)
(* other operation leave nextId unchanged.                                 *)
C17_ConsecutiveIds ==
    [][ /\ nextId' = 1 + Len(issued')
        /\ \A i \in 1..Len(issued') : issued'[i] = i
        /\ IF op' = "createUser" /\ result'.success
           THEN /\ Val(result'.data).id = Len(issued) + 1
                /\ nextId' = nextId + 1
           ELSE nextId' = nextId
      ]_vars

\* a create was refused after one had succeeded, and the counter stayed at 2
C17_Witness ==
    /\ op = "createUser" /\ ~result.success
    /\ issued = <<1>> /\ nextId = 2

(* ------------------------- laws of ResultUtils --------------------------- *)

\* id
Identity == [v \in Values |-> v]

\* g composed with f
Compose(g, f) == [v \in Values |-> g[f[v]]]

\* ok, as a mapper
Ok == [v \in Values |-> createSuccess(v)]

(* C13 (as stated): for every Result r, every payload x and all pure f, g, *)
(* undefined payloads and results and empty error messages included,       *)
(* map(ok(x), id) = ok(x) and map(map(r, f), g) = map(r, g composed f).    *)
C13_FunctorLaws ==
    op = "map" =>
        /\ (args.result.success /\ args.mapper = Identity) => result = args.result
        /\ \A g \in Mappers :
              map(result, g) = map(args.result, Compose(g, args.mapper))

(* C13 (amended): map(ok(x), id) = ok(x) for every payload x other than    *)
(* undefined, and map(map(r, f), g) = map(r, g composed f) for every       *)
(* Result r and all pure f, g where f does not return undefined for the    *)
(* payload of a successful r.                                              *)
C13_FunctorLawsDefined ==
    op = "map" =>
        /\ ( /\ args.result.success /\ args.result.data # Undefined
             /\ args.mapper = Identity )
           => result = args.result
        /\ ( (args.result.success /\ args.result.data # Undefined)
             => args.mapper[args.result.data] # Undefined )
           => \A g \in Mappers :
                 map(result, g) = map(args.result, Compose(g, args.mapper))

\* map(ok(0), id) returned ok(0)
C13_Witness ==
    /\ op = "map"
    /\ args.result = createSuccess(Def(0)) /\ args.mapper = Identity
    /\ result = createSuccess(Def(0))

(* C14 (as stated): for every Result r, payload x and Result-returning f,  *)
(* flatMap(ok(x), f) = f(x) and flatMap(r, ok) = r, also for an error r    *)
(* with an empty or absent message and for an undefined payload.           *)
C14_MonadLaws ==
    op = "flatMap" =>
        /\ args.result.success => result = args.mapper[args.result.data]
        /\ args.mapper = Ok => result = args.result

(* C14 (amended): flatMap(ok(x), f) = f(x) for every payload x other than  *)
(* undefined, and flatMap(r, ok) = r for every r that is ok(x) with x not  *)
(* undefined or an error Result with a non-empty message.                  *)
C14_MonadLawsDefined ==
    op = "flatMap" =>
        /\ (args.result.success /\ args.result.data # Undefined)
           => result = args.mapper[args.result.data]
        /\ ( /\ args.mapper = Ok
             /\ \/ args.result.success /\ args.result.data # Undefined
                \/ /\ ~args.result.success
                   /\ args.result.error \notin {Undefined, Def("")} )
           => result = args.result

\* flatMap(ok(0), ok) returned ok(0)
C14_Witness ==
    /\ op = "flatMap"
    /\ args.result = createSuccess(Def(0)) /\ args.mapper = Ok
    /\ result = createSuccess(Def(0))

(* C15 (as stated): for all payloads x, defaults d and messages m,         *)
(* unwrapOr(ok(x), d) = x and unwrapOr(err(m), d) = d.                     *)
C15_UnwrapOrRoundTrip ==
    op = "unwrapOr" =>
        /\ args.result.success => result = args.result.data
        /\ ~args.result.success => result = args.defaultValue

(* C15 (amended): unwrapOr(ok(x), d) = x for all payloads x other than     *)
(* undefined, unwrapOr(ok(undefined), d) = d, and unwrapOr(err(m), d) = d  *)
(* for all defaults d and messages m.                                      *)
C15_UnwrapOrDefined ==
    op = "unwrapOr" =>
        /\ (args.result.success /\ args.result.data # Undefined)
           => result = args.result.data
        /\ (args.result.success /\ args.result.data = Undefined)
           => result = args.defaultValue
        /\ ~args.result.success => result = args.defaultValue

\* unwrapOr(ok(0), 1) returned 0
C15_Witness ==
    /\ op = "unwrapOr"
    /\ args.result = createSuccess(Def(0)) /\ args.defaultValue = Def(1)
    /\ result = Def(0)

====
